---- MODULE Spec2Model ----
(***************************************************************************)
(* A model of SceneZoneSpaceManager                                        *)
(* (Engine/source/scene/zones/sceneZoneSpaceManager.cpp).                  *)
(*                                                                         *)
(* The manager's fields, and the fields of the scene objects it touches,   *)
(* are the variables.  Every public entry point is one action; the private *)
(* helpers are operators from a manager state (a record of all fields) to  *)
(* the manager state they leave behind.  Vectors are sequences; C++ index  *)
(* i is sequence index i+1.  ZoneObjectList objects live on a heap of      *)
(* numbered lists, so that two vector slots can hold the same pointer.     *)
(*                                                                         *)
(* The world is one-dimensional: a box is an interval <<lo, hi>> of cells. *)
(* AssertFatal is modelled as in a build with asserts enabled: a failing   *)
(* assertion sets `fault` and the program stops.                           *)
(***************************************************************************)
EXTENDS Integers, Sequences, FiniteSets, TLC

\* ------------------------------------------------------------------ bounds

\* registerZones calls for ordinary zone spaces in one run of the program.
MaxRegistrations == 3
\* SceneObject::MaxObjectZones, scaled down to the size of the model.
MaxObjectZones == 2
\* The registrations of zone spaces in the long run of a scene that holds
\* zone spaces only.
MaxSpaceRegistrations == 5

\* ------------------------------------------------------------- the objects

Root == "Root"
NULL == "NULL"
Spaces == {"A", "B"}
PlainObjects == {"o1"}
Objects == Spaces \cup PlainObjects
Owners == Spaces \cup {Root}
\* SceneZoneSpace::getZoneRange(): the number of zones a space registers with.
getZoneRange == [o \in Spaces |-> IF o = "A" THEN 2 ELSE 1]
\* The order in which the scene container reports objects.
ContainerOrder == <<"A", "B", "o1">>

RootZoneId == 0
InvalidZoneId == -1
NoFault == "none"

\* The world has two cells; a box is a cell or both.
Boxes == { <<1, 1>>, <<2, 2>>, <<1, 2>> }
\* The boxes an object takes: A is at the low end and grows or shrinks, B
\* stays in the high cell, a plain object is anywhere.
BoxesOf(o) == IF o = "A" THEN { <<1, 1>>, <<1, 2>> }
              ELSE IF o = "B" THEN { <<2, 2>> }
              ELSE Boxes
\* The box of an object that is not in the scene.
RestBox(o) == IF o = "B" THEN <<2, 2>> ELSE <<1, 1>>
\* Box3F::Invalid has min > max, so that merging a box into it yields the box.
Box3FInvalid == <<3, 0>>

VARIABLES
    mZoneSpaces,              \* Vector<SceneZoneSpace*>: the active owners
    mZoneLists,               \* Vector<ZoneObjectList*>: zone ID -> list (0: NULL)
    mZoneListPool,            \* Vector<ZoneObjectList*>: free lists
    listManager,              \* ZoneObjectList::mManager of every list on the heap
    listObjects,              \* ZoneObjectList::getObjects() of every list on the heap
    mNumTotalAllocatedZones,
    mNumActiveZones,
    mNumZones,                \* SceneZoneSpace::mNumZones
    mZoneRangeStart,          \* SceneZoneSpace::mZoneRangeStart
    zoneObjectType,           \* mTypeMask & ZoneObjectType
    mObjectZoneLists,         \* the membership table: handle -> zone IDs
    usedHandles,              \* the handles of the table that are allocated
    mZoneListHandle,          \* SceneObject::mZoneListHandle
    mNumCurrZones,            \* SceneObject::mNumCurrZones
    mZoneRefDirty,            \* SceneObject::mZoneRefDirty
    mDirtyObjects,
    mDirtyZoneSpaces,
    mDirtyArea,
    worldBox,                 \* SceneObject::getWorldBox()
    inContainer,              \* the object is in the scene container
    globalBounds,             \* isGlobalBounds() or OUTDOOR_OBJECT_TYPEMASK
    fault,                    \* the AssertFatal that fired, or NoFault
    compacted,                \* the entry point that ran last rewrote the ID space
    lastOp,                   \* the entry point that ran last
    numRegistrations,         \* registerZones calls for ordinary spaces so far
    lostLastZone              \* the plain objects whose one zone the last
                              \* operation's unregisterZones took away

vars == << mZoneSpaces, mZoneLists, mZoneListPool, listManager, listObjects,
           mNumTotalAllocatedZones, mNumActiveZones, mNumZones, mZoneRangeStart,
           zoneObjectType, mObjectZoneLists, usedHandles, mZoneListHandle,
           mNumCurrZones, mZoneRefDirty, mDirtyObjects, mDirtyZoneSpaces,
           mDirtyArea, worldBox, inContainer, globalBounds, fault, compacted,
           lastOp, numRegistrations, lostLastZone >>

\* ------------------------------------------------------------ small helpers

Min(a, b) == IF a <= b THEN a ELSE b
Max(a, b) == IF a >= b THEN a ELSE b
\* Vector::operator[] with the C++ index.
At(v, i) == v[i + 1]
Range(v) == { v[i] : i \in 1..Len(v) }
Put(v, i, x) == [v EXCEPT ![i + 1] = x]
\* Vector::remove: erases the first element equal to x, if there is one.
RECURSIVE VectorRemove(_, _)
VectorRemove(v, x) ==
    IF v = <<>> THEN <<>>
    ELSE IF Head(v) = x THEN Tail(v)
    ELSE <<Head(v)>> \o VectorRemove(Tail(v), x)
\* Vector::erase( index ).
VectorErase(v, i) == SubSeq(v, 1, i) \o SubSeq(v, i + 2, Len(v))
\* n copies of x.
Fill(n, x) == [i \in 1..n |-> x]

\* Box3F::intersect as the manager uses it: extends this box to cover b.
BoxIntersect(a, b) == <<Min(a[1], b[1]), Max(a[2], b[2])>>
BoxOverlap(a, b) == a[1] <= b[2] /\ b[1] <= a[2]

\* The handles of the membership table (0 is "no list").
Handles == 1..Cardinality(Objects)

\* The manager state as one record, for the helpers.
State ==
    [ mZoneSpaces |-> mZoneSpaces, mZoneLists |-> mZoneLists,
      mZoneListPool |-> mZoneListPool, listManager |-> listManager,
      listObjects |-> listObjects,
      mNumTotalAllocatedZones |-> mNumTotalAllocatedZones,
      mNumActiveZones |-> mNumActiveZones, mNumZones |-> mNumZones,
      mZoneRangeStart |-> mZoneRangeStart, zoneObjectType |-> zoneObjectType,
      mObjectZoneLists |-> mObjectZoneLists, usedHandles |-> usedHandles,
      mZoneListHandle |-> mZoneListHandle, mNumCurrZones |-> mNumCurrZones,
      mZoneRefDirty |-> mZoneRefDirty, mDirtyObjects |-> mDirtyObjects,
      mDirtyZoneSpaces |-> mDirtyZoneSpaces, mDirtyArea |-> mDirtyArea,
      worldBox |-> worldBox, inContainer |-> inContainer,
      globalBounds |-> globalBounds, fault |-> fault, compacted |-> FALSE ]

Commit(s) ==
    /\ mZoneSpaces' = s.mZoneSpaces
    /\ mZoneLists' = s.mZoneLists
    /\ mZoneListPool' = s.mZoneListPool
    /\ listManager' = s.listManager
    /\ listObjects' = s.listObjects
    /\ mNumTotalAllocatedZones' = s.mNumTotalAllocatedZones
    /\ mNumActiveZones' = s.mNumActiveZones
    /\ mNumZones' = s.mNumZones
    /\ mZoneRangeStart' = s.mZoneRangeStart
    /\ zoneObjectType' = s.zoneObjectType
    /\ mObjectZoneLists' = s.mObjectZoneLists
    /\ usedHandles' = s.usedHandles
    /\ mZoneListHandle' = s.mZoneListHandle
    /\ mNumCurrZones' = s.mNumCurrZones
    /\ mZoneRefDirty' = s.mZoneRefDirty
    /\ mDirtyObjects' = s.mDirtyObjects
    /\ mDirtyZoneSpaces' = s.mDirtyZoneSpaces
    /\ mDirtyArea' = s.mDirtyArea
    /\ worldBox' = s.worldBox
    /\ inContainer' = s.inContainer
    /\ globalBounds' = s.globalBounds
    /\ fault' = s.fault
    /\ compacted' = s.compacted

\* A failing AssertFatal: the first one to fire is the one that is kept.
Fault(s, msg) == IF s.fault = NoFault THEN [s EXCEPT !.fault = msg] ELSE s

\* ------------------------------------------------- the collaborators' side
\* The scene container, the zone spaces' own methods and the handle table
\* (scene/sceneContainer.h, scene/zones/sceneZoneSpace.cpp and the
\* manager's header) are not part of the reviewed unit; they are modelled
\* from the interface the specification gives them.

\* SceneContainer::findObjectList( area, mask, &list ) for the two masks the
\* manager uses: every object, or the objects with ZoneObjectType.
findObjectList(s, area, zonesOnly) ==
    SelectSeq(ContainerOrder,
              LAMBDA o : /\ s.inContainer[o]
                         /\ BoxOverlap(s.worldBox[o], area)
                         /\ (zonesOnly => o \in Spaces /\ s.zoneObjectType[o]))

\* The cell that zone n of a space covers: the zones of a space lie side by
\* side from the low end of its world box; what is left of the box is not
\* inside any of its zones.
ZoneCell(s, space, n) == s.worldBox[space][1] + n
ZoneCovers(s, space, n, c) ==
    c = ZoneCell(s, space, n) /\ c <= s.worldBox[space][2]

\* SceneZoneSpace::getOverlappingZones( box, zones, numZones ): the IDs of
\* the space's zones that the box overlaps, in ascending order, and whether
\* the box reaches outside of all of the space's zones.
RECURSIVE OverlappingZoneIds(_, _, _, _)
OverlappingZoneIds(s, space, box, n) ==
    IF n >= s.mNumZones[space] THEN <<>>
    ELSE (IF \E c \in box[1]..box[2] : ZoneCovers(s, space, n, c)
            THEN <<s.mZoneRangeStart[space] + n>> ELSE <<>>)
         \o OverlappingZoneIds(s, space, box, n + 1)
getOverlappingZones(s, space, box) ==
    [ zones |-> OverlappingZoneIds(s, space, box, 0),
      overlapsOutside |->
          \E c \in box[1]..box[2] :
              \A n \in 0..(s.mNumZones[space] - 1) : ~ZoneCovers(s, space, n, c) ]

\* SceneZoneSpace::getPointZone( p ): the ID of the space's zone that holds
\* the point, InvalidZoneId when none of its zones does.
getPointZone(s, space, cell) ==
    IF \E n \in 0..(s.mNumZones[space] - 1) : ZoneCovers(s, space, n, cell)
      THEN s.mZoneRangeStart[space]
               + (CHOOSE n \in 0..(s.mNumZones[space] - 1) :
                      ZoneCovers(s, space, n, cell))
      ELSE InvalidZoneId

\* SceneZoneSpaceManager::isValidZoneId and getZoneOwner (the header): the
\* back-reference of the list in the zone's slot; NULL for an ID that has no
\* slot, an empty slot, or a list that sits in the pool.
isValidZoneId(s, zoneId) ==
    /\ zoneId >= 0
    /\ zoneId < s.mNumTotalAllocatedZones
    /\ zoneId < Len(s.mZoneLists)
    /\ At(s.mZoneLists, zoneId) # 0
getZoneOwner(s, zoneId) ==
    IF isValidZoneId(s, zoneId) THEN s.listManager[At(s.mZoneLists, zoneId)] ELSE NULL

\* The lists in the slots of a space's current range.
SpaceLists(s, space) ==
    { At(s.mZoneLists, z) : z \in { z \in 0..(Len(s.mZoneLists) - 1) :
          /\ z >= s.mZoneRangeStart[space]
          /\ z < s.mZoneRangeStart[space] + s.mNumZones[space]
          /\ At(s.mZoneLists, z) # 0 } }

\* SceneZoneSpace::_onZoneAddObject( object, zoneIDs, numZones ): the space
\* puts the object on the list of each of the zones.
_onZoneAddObject(s, space, object, zoneIDs) ==
    LET lists == { At(s.mZoneLists, z) : z \in Range(zoneIDs) }
    IN  [s EXCEPT !.listObjects =
            [l \in DOMAIN @ |-> IF l \in lists THEN @[l] \cup {object} ELSE @[l]]]

\* SceneZoneSpace::_onZoneRemoveObject( object ): the space takes the object
\* off the lists of all of its zones.
_onZoneRemoveObject(s, space, object) ==
    LET lists == SpaceLists(s, space)
    IN  [s EXCEPT !.listObjects =
            [l \in DOMAIN @ |-> IF l \in lists THEN @[l] \ {object} ELSE @[l]]]

\* The membership table (mObjectZoneLists).
\* Every object has a slot of its own, so the handle it gets is always the same.
allocHandle(object) == CHOOSE h \in Handles : ContainerOrder[h] = object
allocList(s, object, zoneList) ==
    LET h == allocHandle(object)
    IN  [s EXCEPT !.usedHandles = @ \cup {h},
                  !.mObjectZoneLists[h] = zoneList,
                  !.mZoneListHandle[object] = h]
reallocList(s, handle, zoneList) == [s EXCEPT !.mObjectZoneLists[handle] = zoneList]
freeList(s, handle) ==
    [s EXCEPT !.usedHandles = @ \ {handle}, !.mObjectZoneLists[handle] = <<>>]
getValues(s, handle) == IF handle = 0 THEN <<>> ELSE s.mObjectZoneLists[handle]
containsBinItem(s, handle, zoneId) == zoneId \in Range(getValues(s, handle))
replaceListBin(s, handle, oldZoneId, newZoneId) ==
    IF handle = 0 THEN s
    ELSE [s EXCEPT !.mObjectZoneLists[handle] =
             [i \in DOMAIN @ |-> IF @[i] = oldZoneId THEN newZoneId ELSE @[i]]]

\* ------------------------------------------------------------ the manager

_getZoneSpaceIndex(s, object) ==
    IF \E i \in 1..Len(s.mZoneSpaces) : s.mZoneSpaces[i] = object
      THEN (CHOOSE i \in 1..Len(s.mZoneSpaces) :
               /\ s.mZoneSpaces[i] = object
               /\ \A j \in 1..(i - 1) : s.mZoneSpaces[j] # object) - 1
      ELSE -1

notifyObjectChanged(s, object) ==
    IF s.mZoneRefDirty[object] THEN s
    ELSE LET q == IF object \in Spaces /\ s.zoneObjectType[object]
                    THEN [s EXCEPT !.mDirtyZoneSpaces = Append(@, object)]
                    ELSE [s EXCEPT !.mDirtyObjects = Append(@, object)]
         IN  [q EXCEPT !.mZoneRefDirty[object] = TRUE]

\* A variant that hands out a pooled list without its new owner.
_allocZoneList_NoOwner(s, space, zoneId) ==
    IF s.mZoneListPool # <<>>
      THEN [s EXCEPT !.mZoneListPool = SubSeq(@, 1, Len(@) - 1),
                     !.mZoneLists =
                         Put(@, zoneId, s.mZoneListPool[Len(s.mZoneListPool)])]
      ELSE [s EXCEPT !.listManager = Append(@, space),
                     !.listObjects = Append(@, {}),
                     !.mZoneLists = Put(@, zoneId, Len(s.listManager) + 1)]
\* Takes a list from the pool, or a new one from the heap; the list is
\* left in slot zoneId.
_allocZoneList(s, space, zoneId) ==
    IF s.mZoneListPool # <<>>
      THEN LET ret == s.mZoneListPool[Len(s.mZoneListPool)]
           IN  [s EXCEPT !.listManager[ret] = space,
                         !.mZoneListPool = SubSeq(@, 1, Len(@) - 1),
                         !.mZoneLists = Put(@, zoneId, ret)]
      ELSE LET ret == Len(s.listManager) + 1
           IN  [s EXCEPT !.listManager = Append(@, space),
                         !.listObjects = Append(@, {}),
                         !.mZoneLists = Put(@, zoneId, ret)]

\* A variant that leaves the back-reference in the list.
_freeZoneList_KeepsOwner(s, list) ==
    [s EXCEPT !.listObjects[list] = {},
              !.mZoneListPool = Append(@, list)]
_freeZoneList(s, list) ==
    [s EXCEPT !.listManager[list] = NULL,
              !.listObjects[list] = {},
              !.mZoneListPool = Append(@, list)]

\* The inner loop of _compactZonesCheck for one space: c is the state with
\* the vector under construction and the next ID to hand out.
\* A variant that relocates the lists of a space in mirrored order and
\* rewrites no entry.
CompactZones_Mirrored(c, oldZoneRangeStart, newZoneRangeStart, numZones, n) ==
    IF c.s.fault # NoFault THEN c
    ELSE IF \/ newZoneRangeStart + numZones > Len(c.newZoneLists)
            \/ oldZoneRangeStart + numZones > Len(c.s.mZoneLists)
      THEN [c EXCEPT !.s = Fault(@, "_compactZonesCheck - index out of range")]
    ELSE [c EXCEPT !.newZoneLists =
             [i \in DOMAIN @ |->
                 IF i - 1 - newZoneRangeStart \in 0..(numZones - 1)
                   THEN At(c.s.mZoneLists, oldZoneRangeStart + numZones - 1
                                               - (i - 1 - newZoneRangeStart))
                   ELSE @[i]]]
RECURSIVE CompactZones(_, _, _, _, _)
CompactZones(c, oldZoneRangeStart, newZoneRangeStart, numZones, n) ==
    IF n >= numZones \/ c.s.fault # NoFault THEN c
    ELSE IF ~(newZoneRangeStart + n < Len(c.newZoneLists))
                \/ ~(oldZoneRangeStart + n < Len(c.s.mZoneLists))
      THEN [c EXCEPT !.s = Fault(@, "_compactZonesCheck - index out of range")]
    ELSE LET newZoneId == newZoneRangeStart + n
             oldZoneId == oldZoneRangeStart + n
             moved == [c EXCEPT !.newZoneLists =
                          Put(@, newZoneId, At(c.s.mZoneLists, oldZoneId))]
             \* The entries rewritten are those of the objects on the list
             \* that the old vector holds in the new slot.
             list == At(c.s.mZoneLists, newZoneId)
             RewriteAll[objs \in SUBSET Objects] ==
                 IF objs = {} THEN moved.s
                 ELSE LET obj == CHOOSE o \in objs : TRUE
                      IN  replaceListBin(RewriteAll[objs \ {obj}],
                                         moved.s.mZoneListHandle[obj],
                                         oldZoneId, newZoneId)
         IN  CompactZones(
                 IF list = 0 THEN moved
                 ELSE [moved EXCEPT !.s = RewriteAll[moved.s.listObjects[list]]],
                 oldZoneRangeStart, newZoneRangeStart, numZones, n + 1)

\* The range start a space gets in the walk: the next ID, taken before the
\* space's zones are counted in.
NewZoneRangeStart(nextZoneId, numZones) == nextZoneId

RECURSIVE CompactSpaces(_, _)
CompactSpaces(c, i) ==
    IF i >= Len(c.s.mZoneSpaces) \/ c.s.fault # NoFault THEN c
    ELSE LET space == At(c.s.mZoneSpaces, i)
             oldZoneRangeStart == c.s.mZoneRangeStart[space]
             numZones == c.s.mNumZones[space]
             newZoneRangeStart == NewZoneRangeStart(c.nextZoneId, numZones)
             c1 == [c EXCEPT !.s.mZoneRangeStart[space] = newZoneRangeStart,
                             !.nextZoneId = @ + numZones]
         IN  CompactSpaces(
                 CompactZones(c1, oldZoneRangeStart, newZoneRangeStart, numZones, 0),
                 i + 1)

\* A variant that compacts only below the half.
CompactionDue_BelowHalf(s) ==
    s.mNumActiveZones < (s.mNumTotalAllocatedZones \div 2)
\* The condition under which _compactZonesCheck rewrites the ID space.
CompactionDue(s) == ~(s.mNumActiveZones > (s.mNumTotalAllocatedZones \div 2))

\* The end of _compactZonesCheck: the counter and the vector are replaced
\* and the closing assertion is checked.
InstallCompaction(c) ==
    LET r == [c.s EXCEPT !.mNumTotalAllocatedZones = c.nextZoneId,
                         !.mZoneLists = c.newZoneLists,
                         !.compacted = TRUE]
    IN  IF r.mNumTotalAllocatedZones = r.mNumActiveZones THEN r
        ELSE Fault(r, "_compactZonesCheck - mismatch between active and allocated zones")

\* _compactZonesCheck past its first test: the redistribution of the IDs.
RedistributeZoneIds(s) ==
    InstallCompaction(
        CompactSpaces([s |-> s, nextZoneId |-> 0,
                       newZoneLists |-> Fill(s.mNumActiveZones, 0)], 0))

_compactZonesCheck(s) ==
    IF ~CompactionDue(s) THEN s ELSE RedistributeZoneIds(s)

\* Variants of the range start with a plausible slip: the count of the
\* zones in use, and the mark plus one.
ZoneRangeStartFor_ActiveCount(s) == s.mNumActiveZones
ZoneRangeStartFor_OffByOne(s) == s.mNumTotalAllocatedZones + 1
\* The range start registerZones hands out: the allocation high-water mark.
ZoneRangeStartFor(s) == s.mNumTotalAllocatedZones

\* A variant that puts the new space first.
PushBack_Front(v, x) == <<x>> \o v
\* mZoneSpaces.push_back( object ).
PushBack(v, x) == Append(v, x)

RECURSIVE AllocZoneLists(_, _, _, _)
AllocZoneLists(s, space, i, end) ==
    IF i >= end THEN s
    ELSE AllocZoneLists(_allocZoneList(s, space, i), space, i + 1, end)

\* registerZones after the lists are allocated: the space joins the list
\* of owners, gets ZoneObjectType and, unless it is the root zone, is put
\* on the dirty list.
EnlistZoneSpace(s, object) ==
    LET s3 == [s EXCEPT !.mZoneSpaces = PushBack(@, object),
                        !.zoneObjectType[object] = TRUE]
    IN  IF object = Root THEN s3
        ELSE notifyObjectChanged(
                 [s3 EXCEPT !.mZoneRefDirty[object] = FALSE], object)

\* registerZones after the compaction check: the range is handed out and
\* the lists of its zones are allocated.
AllocateZoneRange(c, object, numZones) ==
    LET zoneRangeStart == ZoneRangeStartFor(c)
        s1 == [c EXCEPT !.mNumTotalAllocatedZones = @ + numZones,
                        !.mNumActiveZones = @ + numZones,
                        !.mNumZones[object] = numZones,
                        !.mZoneRangeStart[object] = zoneRangeStart,
                        !.mZoneLists = @ \o Fill(numZones, 0)]
    IN  IF c.fault # NoFault THEN c
        ELSE EnlistZoneSpace(
                 AllocZoneLists(s1, object, zoneRangeStart,
                                c.mNumTotalAllocatedZones + numZones),
                 object)

\* A variant that runs the compaction check ahead of the assertion.
registerZones_CompactsFirst(s, object, numZones) ==
    IF _getZoneSpaceIndex(s, object) # -1
      THEN Fault(_compactZonesCheck(s), "registerZones - Object already registered")
    ELSE AllocateZoneRange(_compactZonesCheck(s), object, numZones)
registerZones(s, object, numZones) ==
    IF _getZoneSpaceIndex(s, object) # -1
      THEN Fault(s, "registerZones - Object already registered")
    ELSE AllocateZoneRange(_compactZonesCheck(s), object, numZones)

\* The loop of _clearZoneList over the objects of the list, which the
\* EXCEPT below takes one at a time, in any order: the steps for two
\* objects touch different fields.
RECURSIVE ClearObjects(_, _, _)
ClearObjects(s, zoneSpace, objs) ==
    IF objs = {} \/ s.fault # NoFault THEN s
    ELSE LET object == CHOOSE o \in objs : TRUE
             s1 == [s EXCEPT !.mNumCurrZones[object] = @ - 1]
             s2 == IF s1.mNumCurrZones[object] = 0
                     THEN [s1 EXCEPT !.mZoneRefDirty[object] = TRUE] ELSE s1
             s3 == IF zoneSpace = NULL
                     THEN Fault(s2, "_clearZoneList - zone has no owner")
                     ELSE _onZoneRemoveObject(s2, zoneSpace, object)
         IN  IF s.mNumCurrZones[object] <= 0
               THEN Fault(s, "_clearZoneList - Bad reference count")
               ELSE ClearObjects(s3, zoneSpace, objs \ {object})

_clearZoneList(s, zoneId) ==
    IF s.fault # NoFault THEN s
    ELSE IF ~(zoneId < s.mNumTotalAllocatedZones) \/ ~(zoneId < Len(s.mZoneLists))
      THEN Fault(s, "_clearZoneList - Zone ID out of range")
    ELSE LET list == At(s.mZoneLists, zoneId)
             zoneSpace == getZoneOwner(s, zoneId)
         IN  IF list = 0 THEN Fault(s, "_clearZoneList - no list in the slot")
             ELSE ClearObjects(s, zoneSpace, s.listObjects[list])

\* The loop of unregisterZones over the zones of the space.
\* One round of the loop: the list that was cleared goes back to the pool.
FreeClearedList(s, list) ==
    IF s.fault # NoFault THEN s ELSE _freeZoneList(s, list)

RECURSIVE FreeZones(_, _, _)
FreeZones(s, j, end) ==
    IF j >= end \/ s.fault # NoFault THEN s
    ELSE FreeZones(FreeClearedList(_clearZoneList(s, j), At(s.mZoneLists, j)),
                   j + 1, end)

\* A variant that gives the IDs back as well.
RemoveZoneSpace_LowersAllocated(s, object, zoneSpaceIndex) ==
    IF s.fault # NoFault THEN s
    ELSE [s EXCEPT !.mNumActiveZones = @ - s.mNumZones[object],
                   !.mNumTotalAllocatedZones = @ - s.mNumZones[object],
                   !.mZoneSpaces = VectorErase(@, zoneSpaceIndex),
                   !.zoneObjectType[object] = FALSE,
                   !.mZoneRangeStart[object] = InvalidZoneId,
                   !.mNumZones[object] = 0,
                   !.mDirtyArea = BoxIntersect(@, s.worldBox[object])]
\* unregisterZones after the loop: the counter, the list of owners, the
\* space's own fields and the dirty area.
RemoveZoneSpace(s, object, zoneSpaceIndex) ==
    IF s.fault # NoFault THEN s
    ELSE [s EXCEPT !.mNumActiveZones = @ - s.mNumZones[object],
                   !.mZoneSpaces = VectorErase(@, zoneSpaceIndex),
                   !.zoneObjectType[object] = FALSE,
                   !.mZoneRangeStart[object] = InvalidZoneId,
                   !.mNumZones[object] = 0,
                   !.mDirtyArea = BoxIntersect(@, s.worldBox[object])]

unregisterZones(s, object) ==
    LET zoneSpaceIndex == _getZoneSpaceIndex(s, object)
        zoneRangeStart == s.mZoneRangeStart[object]
        numZones == s.mNumZones[object]
    IN  IF s.fault # NoFault THEN s
        ELSE IF zoneSpaceIndex = -1
          THEN Fault(s, "unregisterZones - Object not registered as zone space")
        ELSE IF ~(s.mNumActiveZones >= s.mNumZones[object])
          THEN Fault(s, "unregisterZones - Too many zones removed")
        ELSE RemoveZoneSpace(
                 FreeZones(s, zoneRangeStart, zoneRangeStart + numZones),
                 object, zoneSpaceIndex)

_setObjectZoneList(s, object, zoneList) ==
    LET numZones == Len(zoneList)
        inRange(z) == /\ z >= s.mZoneRangeStart[object]
                      /\ z < s.mZoneRangeStart[object] + s.mNumZones[object]
        s1 == IF s.mZoneListHandle[object] = 0 THEN allocList(s, object, zoneList)
              ELSE IF numZones = 0
                THEN [freeList(s, s.mZoneListHandle[object])
                         EXCEPT !.mZoneListHandle[object] = 0]
              ELSE reallocList(s, s.mZoneListHandle[object], zoneList)
    IN  IF object \in Spaces /\ \E i \in 1..numZones : inRange(zoneList[i])
          THEN Fault(s, "_addToZoneList - Cannot add zone to itself")
          ELSE [s1 EXCEPT !.mNumCurrZones[object] = numZones]

\* A variant with |= for &=.
AccumulateOutside_Or(outsideIncluded, overlapsOutside) ==
    outsideIncluded \/ overlapsOutside
\* outsideIncluded &= overlapsOutside: the outside zone stays in only while
\* no zone space contains the object fully.
AccumulateOutside(outsideIncluded, overlapsOutside) ==
    outsideIncluded /\ overlapsOutside

\* A variant that does not look at the room left.
IncludeOutside_NoRoomCheck(outsideOnly, outsideIncluded, remainingZones) ==
    outsideOnly \/ outsideIncluded
\* The test under which _zoneInsert adds the outdoor zone.
IncludeOutside(outsideOnly, outsideIncluded, remainingZones) ==
    outsideOnly \/ (outsideIncluded /\ remainingZones > 0)

\* One round of the loop of _zoneInsert, for a zone space that has
\* reported r: z holds the locals numGlobalZones (the length of
\* globalZones), remainingZones, globalZones, outsideIncluded and
\* mTempObjectZones.
AddOwnerZones(z, zoneSpace, r) ==
    LET numZones == Min(z.remainingZones, Len(r.zones))
        z1 == [z EXCEPT !.outsideIncluded =
                  AccumulateOutside(@, r.overlapsOutside)]
    IN  IF ~(Len(r.zones) # 0 \/ r.overlapsOutside)
          THEN [z EXCEPT !.fault = "_zoneInsert - Object must be fully contained in one or more zones or intersect the outside zone"]
        ELSE IF numZones > 0
          THEN [z1 EXCEPT
                  !.mTempObjectZones =
                      Append(@, [space |-> zoneSpace,
                                 startZone |-> Len(z.globalZones),
                                 numZones |-> numZones]),
                  !.globalZones = @ \o SubSeq(r.zones, 1, numZones),
                  !.remainingZones = @ - numZones]
        ELSE z1

\* The loop of _zoneInsert over the zone spaces of the query list.
RECURSIVE CollectZones(_, _, _, _)
CollectZones(s, object, queryList, z) ==
    IF queryList = <<>> \/ z.fault # NoFault THEN z
    ELSE CollectZones(
             s, object, Tail(queryList),
             IF Head(queryList) = object THEN z
             ELSE AddOwnerZones(z, Head(queryList),
                                getOverlappingZones(s, Head(queryList),
                                                    s.worldBox[object])))

\* Nothing but the outdoor zone in the scene, or an object that is kept in
\* the outdoor zone (global bounds, or a type restricted to it).
OutsideOnly(s, object) == s.mNumActiveZones = 1 \/ s.globalBounds[object]

\* What _zoneInsert decides before it writes anything: the IDs it commits
\* and the records of the owners it notifies.
AddOutsideZone(z1, outsideOnly) ==
    IF IncludeOutside(outsideOnly, z1.outsideIncluded, z1.remainingZones)
      THEN [z1 EXCEPT
              !.mTempObjectZones =
                  Append(@, [space |-> Root, startZone |-> Len(z1.globalZones),
                             numZones |-> 1]),
              !.globalZones = Append(@, RootZoneId)]
      ELSE z1

ZoneInsertPlan(s, object, queryList) ==
    LET z0 == [globalZones |-> <<>>, remainingZones |-> MaxObjectZones,
               outsideIncluded |-> TRUE, mTempObjectZones |-> <<>>,
               fault |-> NoFault]
    IN  AddOutsideZone(IF OutsideOnly(s, object) THEN z0
                       ELSE CollectZones(s, object, queryList, z0),
                       OutsideOnly(s, object))

\* The loop of _zoneInsert that notifies the owners.
RECURSIVE NotifyAdded(_, _, _, _)
NotifyAdded(s, object, globalZones, records) ==
    IF records = <<>> THEN s
    ELSE LET record == Head(records)
             ids == SubSeq(globalZones, record.startZone + 1,
                           record.startZone + record.numZones)
         IN  NotifyAdded(IF record.numZones > 0
                           THEN _onZoneAddObject(s, record.space, object, ids)
                           ELSE s,
                         object, globalZones, Tail(records))

\* A variant that leaves the flag as it is.
MarkZoningCurrent_Forgotten(s, object) == s
\* The last statement of _zoneInsert: the object's zoning state is current.
MarkZoningCurrent(s, object) == [s EXCEPT !.mZoneRefDirty[object] = FALSE]

\* queryList is mZoneSpacesQueryList as _zoneInsert finds it: the caller's
\* query when queryListInitialized, the query of the object's box otherwise.
\* The end of _zoneInsert, with the table entry written: the owners are
\* notified and the object is marked.
NotifyOwners(s, object, z) ==
    IF s.fault # NoFault THEN s
    ELSE MarkZoningCurrent(
             NotifyAdded(s, object, z.globalZones, z.mTempObjectZones), object)

\* _zoneInsert from the point where the zones are decided.
CommitZones(s, object, z) ==
    IF z.fault # NoFault THEN Fault(s, z.fault)
    ELSE NotifyOwners(IF Len(z.globalZones) > 0
                        THEN _setObjectZoneList(s, object, z.globalZones)
                        ELSE s,
                      object, z)

_zoneInsert(s, object, queryListInitialized, callerQueryList) ==
    IF s.fault # NoFault THEN s
    ELSE IF s.mNumCurrZones[object] # 0
      THEN Fault(s, "_zoneInsert - Object already in zone list")
    ELSE IF ~s.inContainer[object]
      THEN Fault(s, "_zoneInsert - Object must be in scene")
    ELSE CommitZones(
             s, object,
             ZoneInsertPlan(s, object,
                            IF queryListInitialized THEN callerQueryList
                            ELSE findObjectList(s, s.worldBox[object], TRUE)))

\* The loop of _zoneRemove over the IDs of the object's entry.
RECURSIVE NotifyRemoved(_, _, _)
NotifyRemoved(s, obj, zones) ==
    IF zones = <<>> \/ s.fault # NoFault THEN s
    ELSE LET owner == getZoneOwner(s, Head(zones))
         IN  NotifyRemoved(IF owner = NULL
                             THEN Fault(s, "getZoneOwner - Invalid zone ID")
                             ELSE _onZoneRemoveObject(s, owner, obj),
                           obj, Tail(zones))

\* A variant that leaves the occupancy count as it is.
ClearZoningState_KeepsCount(s, obj) ==
    [s EXCEPT !.mZoneListHandle[obj] = 0, !.mZoneRefDirty[obj] = FALSE]
\* The last statements of _zoneRemove, after the table entry is freed.
ClearZoningState(s, obj) ==
    [s EXCEPT !.mZoneListHandle[obj] = 0,
              !.mZoneRefDirty[obj] = FALSE,
              !.mNumCurrZones[obj] = 0]

\* _zoneRemove after the owners are notified.
FreeZoningState(s, obj) ==
    IF s.fault # NoFault THEN s
    ELSE ClearZoningState(freeList(s, s.mZoneListHandle[obj]), obj)

_zoneRemove(s, obj) ==
    IF s.fault # NoFault \/ s.mZoneListHandle[obj] = 0 THEN s
    ELSE FreeZoningState(
             NotifyRemoved(s, obj, getValues(s, s.mZoneListHandle[obj])), obj)

\* A variant that hands out the outdoor zone's owner with the zone found.
FoundZone_RootOwner(zoneSpace, inZone) ==
    [owner |-> Root, zone |-> inZone, fault |-> NoFault]
\* What findZone hands back through its two reference parameters.
FoundZone(zoneSpace, inZone) ==
    [owner |-> zoneSpace, zone |-> inZone, fault |-> NoFault]

\* The loop of findZone over the query list.
RECURSIVE FindZoneIn(_, _, _)
FindZoneIn(s, queryList, cell) ==
    IF queryList = <<>> THEN FoundZone(Root, RootZoneId)
    ELSE IF Head(queryList) \notin Spaces \cup {Root}
      THEN FindZoneIn(s, Tail(queryList), cell)
    ELSE IF Head(queryList) = Root
      THEN [owner |-> NULL, zone |-> InvalidZoneId,
            fault |-> "findZone - SceneRootZone returned by zone manager query"]
    ELSE IF getPointZone(s, Head(queryList), cell) # InvalidZoneId
      THEN FoundZone(Head(queryList), getPointZone(s, Head(queryList), cell))
    ELSE FindZoneIn(s, Tail(queryList), cell)

\* findZone( p, owner, zone ): p is the cell the point lies in together with
\* the cells that the box around the point touches.
findZone(s, p) ==
    IF ~(s.mNumActiveZones >= 1)
      THEN [owner |-> NULL, zone |-> InvalidZoneId,
            fault |-> "findZone - Must have at least one active zone in scene"]
    ELSE IF s.mNumActiveZones = 1 THEN FoundZone(Root, RootZoneId)
    ELSE FindZoneIn(s, findObjectList(s, p.queryBox, TRUE), p.cell)

\* A variant that accumulates the outside overlap as _zoneInsert does.
FindZonesOutside_And(outsideIncluded, overlapsOutside) ==
    outsideIncluded /\ overlapsOutside
\* outsideIncluded |= ... in findZones.
FindZonesOutside(outsideIncluded, overlapsOutside) ==
    outsideIncluded \/ overlapsOutside

\* The loop of findZones over the query list.
RECURSIVE FindZonesIn(_, _, _)
FindZonesIn(r, queryList, area) ==
    IF queryList = <<>> \/ r.s.fault # NoFault THEN r
    ELSE IF Head(queryList) \notin Spaces \cup {Root}
      THEN FindZonesIn(r, Tail(queryList), area)
    ELSE IF Head(queryList) = Root
      THEN [r EXCEPT !.s = Fault(@, "findZones - SceneRootZone returned by zone manager query")]
    ELSE FindZonesIn(
             [r EXCEPT !.outsideIncluded =
                           FindZonesOutside(@, getOverlappingZones(
                               r.s, Head(queryList), area).overlapsOutside),
                       !.outZones = @ \o getOverlappingZones(
                                             r.s, Head(queryList), area).zones,
                       !.numTotalZones = @ + Len(getOverlappingZones(
                                             r.s, Head(queryList), area).zones)],
             Tail(queryList), area)

\* The end of findZones: the outdoor zone is added when an owner reported
\* outside overlap or no zone was found.
FindZonesOutdoor(r) ==
    IF r.s.fault = NoFault /\ (r.outsideIncluded \/ r.numTotalZones = 0)
      THEN [r EXCEPT !.outZones = Append(@, RootZoneId),
                     !.numTotalZones = @ + 1]
      ELSE r

\* findZones( area, outZones ): the state it leaves, the vector of the
\* caller and the number it returns.
findZones(s, area, outZones) ==
    FindZonesOutdoor(
        FindZonesIn([s |-> s, outZones |-> outZones, numTotalZones |-> 0,
                     outsideIncluded |-> FALSE],
                    findObjectList(s, area, TRUE), area))

\* The first test of _rezoneObject that returns without a query: nothing
\* but the outdoor zone, or an object kept in the outdoor zone.
RezoneLeavesUntouched(s, object) ==
    s.mNumActiveZones = 1 \/ s.globalBounds[object]
\* The second: no zone space in the object's area and the object is
\* counted in one zone, the first ID of its entry being the outdoor zone.
RezoneNothingChanged(s, object, queryList) ==
    /\ queryList = <<>>
    /\ s.mNumCurrZones[object] = 1
    /\ getValues(s, s.mZoneListHandle[object]) # <<>>
    /\ getValues(s, s.mZoneListHandle[object])[1] = RootZoneId

_rezoneObject(s, object) ==
    LET queryList == findObjectList(s, s.worldBox[object], TRUE)
    IN  IF s.fault # NoFault THEN s
        ELSE IF s.mNumCurrZones[object] = 0
          THEN _zoneInsert(s, object, FALSE, <<>>)
        ELSE IF RezoneLeavesUntouched(s, object)
          THEN [s EXCEPT !.mZoneRefDirty[object] = FALSE]
        ELSE IF RezoneNothingChanged(s, object, queryList)
          THEN [s EXCEPT !.mZoneRefDirty[object] = FALSE]
        ELSE _zoneInsert(_zoneRemove(s, object), object, TRUE, queryList)

RECURSIVE RezoneAll(_, _)
RezoneAll(s, sObjects) ==
    IF sObjects = <<>> \/ s.fault # NoFault THEN s
    ELSE RezoneAll(_rezoneObject(s, Head(sObjects)), Tail(sObjects))

_rezoneObjects(s, area) == RezoneAll(s, findObjectList(s, area, FALSE))

\* The first loop of updateZoningState: the dirty zone spaces, last first.
RECURSIVE ClearSpaceZones(_, _, _)
ClearSpaceZones(s, zoneSpace, n) ==
    IF n >= s.mNumZones[zoneSpace] \/ s.fault # NoFault THEN s
    ELSE ClearSpaceZones(_clearZoneList(s, s.mZoneRangeStart[zoneSpace] + n),
                         zoneSpace, n + 1)

\* The end of a round: the space's box joins the dirty area.
MergeDirtyArea(s, zoneSpace) ==
    IF s.fault # NoFault THEN s
    ELSE [s EXCEPT !.mDirtyArea = BoxIntersect(@, s.worldBox[zoneSpace])]

RECURSIVE DrainDirtyZoneSpaces(_)
DrainDirtyZoneSpaces(s) ==
    IF s.mDirtyZoneSpaces = <<>> \/ s.fault # NoFault THEN s
    ELSE LET zoneSpace == s.mDirtyZoneSpaces[Len(s.mDirtyZoneSpaces)]
         IN  DrainDirtyZoneSpaces(
                 MergeDirtyArea(
                     ClearSpaceZones(
                         _zoneRemove(
                             [s EXCEPT !.mDirtyZoneSpaces =
                                          SubSeq(@, 1, Len(@) - 1)],
                             zoneSpace),
                         zoneSpace, 0),
                     zoneSpace))

\* The last loop of updateZoningState: the dirty objects, last first.
\* The assertion that ends a round.
AssertNotDirty(s, object) ==
    IF s.fault = NoFault /\ s.mZoneRefDirty[object]
      THEN Fault(s, "updateZoningState - Object still dirty!")
      ELSE s
\* The round for an object that has been taken off the queue.
RezoneIfDirty(s, object) ==
    IF s.mZoneRefDirty[object] THEN _rezoneObject(s, object) ELSE s

RECURSIVE DrainDirtyObjects(_)
DrainDirtyObjects(s) ==
    IF s.mDirtyObjects = <<>> \/ s.fault # NoFault THEN s
    ELSE LET object == s.mDirtyObjects[Len(s.mDirtyObjects)]
         IN  DrainDirtyObjects(
                 AssertNotDirty(
                     RezoneIfDirty(
                         [s EXCEPT !.mDirtyObjects = SubSeq(@, 1, Len(@) - 1)],
                         object),
                     object))

\* The middle of updateZoningState: everything in the dirty area is rezoned.
RezoneDirtyArea(s) ==
    IF s.fault # NoFault THEN s
    ELSE IF s.mDirtyArea # Box3FInvalid
      THEN [_rezoneObjects(s, s.mDirtyArea) EXCEPT !.mDirtyArea = Box3FInvalid]
    ELSE s
\* The assertions that end updateZoningState.
AssertQueuesEmpty(s) ==
    IF s.fault # NoFault THEN s
    ELSE IF s.mDirtyObjects # <<>>
      THEN Fault(s, "updateZoningState - Still have dirty objects!")
    ELSE IF s.mDirtyZoneSpaces # <<>>
      THEN Fault(s, "updateZoningState - Still have dirty zones!")
    ELSE s

updateZoningState(s) ==
    IF /\ s.mDirtyObjects = <<>>
       /\ s.mDirtyZoneSpaces = <<>>
       /\ s.mDirtyArea = Box3FInvalid
      THEN s
    ELSE AssertQueuesEmpty(
             DrainDirtyObjects(RezoneDirtyArea(DrainDirtyZoneSpaces(s))))

registerObject(s, object) == notifyObjectChanged(s, object)

\* The end of unregisterObject for a zone space.
DequeueZoneSpace(s, object) ==
    IF s.fault # NoFault THEN s
    ELSE [s EXCEPT !.mDirtyZoneSpaces = VectorRemove(@, object)]
\* unregisterObject after the object's zoning state is removed.
UnregisterIfZoneSpace(s, object) ==
    IF s.fault # NoFault THEN s
    ELSE IF object \in Spaces /\ s.zoneObjectType[object]
      THEN DequeueZoneSpace(unregisterZones(s, object), object)
    ELSE s

unregisterObject(s, object) ==
    UnregisterIfZoneSpace(
        _zoneRemove([s EXCEPT !.mDirtyObjects = VectorRemove(@, object)], object),
        object)

updateObject(s, object) ==
    IF s.mDirtyZoneSpaces = <<>> /\ ~s.mZoneRefDirty[object] THEN s
    ELSE updateZoningState(s)

\* --------------------------------------------------------------- the state

Init ==
    /\ mZoneSpaces = <<>>
    /\ mZoneLists = <<>>
    /\ mZoneListPool = <<>>
    /\ listManager = <<>>
    /\ listObjects = <<>>
    /\ mNumTotalAllocatedZones = 0
    /\ mNumActiveZones = 0
    /\ mNumZones = [o \in Owners |-> 0]
    /\ mZoneRangeStart = [o \in Owners |-> InvalidZoneId]
    /\ zoneObjectType = [o \in Owners |-> FALSE]
    /\ mObjectZoneLists = [h \in Handles |-> <<>>]
    /\ usedHandles = {}
    /\ mZoneListHandle = [o \in Objects |-> 0]
    /\ mNumCurrZones = [o \in Objects |-> 0]
    /\ mZoneRefDirty = [o \in Objects |-> FALSE]
    /\ mDirtyObjects = <<>>
    /\ mDirtyZoneSpaces = <<>>
    /\ mDirtyArea = Box3FInvalid
    /\ worldBox = [o \in Objects |-> RestBox(o)]
    /\ inContainer = [o \in Objects |-> FALSE]
    /\ globalBounds = [o \in Objects |-> FALSE]
    /\ fault = NoFault
    /\ compacted = FALSE
    /\ lastOp = "construct"
    /\ numRegistrations = 0
    /\ lostLastZone = {}

\* ------------------------------------------------------------- the actions
\* The callers are the scene manager's.  An object enters the scene through
\* addObjectToScene (the container gets it and registerObject is called; a
\* zone space then registers its zones from onSceneAdd, before anything else
\* happens) and leaves it through removeObjectFromScene (unregisterObject,
\* which calls unregisterZones for a zone space).

RootRegistered == _getZoneSpaceIndex(State, Root) # -1
Running == fault = NoFault
\* The zone spaces that have entered the scene and not yet registered zones.
Entering == { o \in Spaces : inContainer[o] /\ _getZoneSpaceIndex(State, o) = -1 }
Settled == RootRegistered /\ Entering = {}

\* The scene manager registers the root zone, with its one zone, before
\* anything else.
RegisterRootZone ==
    /\ Running
    /\ mZoneSpaces = <<>> /\ lastOp = "construct"
    /\ Commit(registerZones(State, Root, 1))
    /\ lastOp' = "registerZones"
    /\ UNCHANGED numRegistrations
    /\ lostLastZone' = {}

\* registerZones( object, numZones ) for a zone space entering the scene.
RegisterZones(object, numZones) ==
    /\ Running /\ RootRegistered
    /\ object \in Entering
    /\ Commit(registerZones(State, object, numZones))
    /\ lastOp' = "registerZones"
    /\ numRegistrations' = numRegistrations + 1
    /\ lostLastZone' = {}

\* The object enters the scene: the container gets it, with its box and
\* its flags, and the scene manager calls registerObject.
RegisterObjectWithin(object, box, outdoorOnly, maxRegistrations) ==
    /\ Running /\ Settled
    /\ ~inContainer[object]
    /\ (object \in Spaces => numRegistrations < maxRegistrations)
    /\ Commit(registerObject([State EXCEPT !.inContainer[object] = TRUE,
                                           !.worldBox[object] = box,
                                           !.globalBounds[object] = outdoorOnly],
                             object))
    /\ lastOp' = "registerObject"
    /\ UNCHANGED numRegistrations
    /\ lostLastZone' = {}

RegisterObject(object, box, outdoorOnly) ==
    RegisterObjectWithin(object, box, outdoorOnly, MaxRegistrations)

\* The plain objects of the scene that are counted in one zone, the one ID
\* of their entry being a zone of the space, on whose list they are.
OnlyZoneIn(space) ==
    { o \in PlainObjects :
        /\ inContainer[o]
        /\ mNumCurrZones[o] = 1
        /\ Len(getValues(State, mZoneListHandle[o])) = 1
        /\ LET zoneId == getValues(State, mZoneListHandle[o])[1]
           IN  /\ zoneId >= mZoneRangeStart[space]
               /\ zoneId < mZoneRangeStart[space] + mNumZones[space]
               /\ getZoneOwner(State, zoneId) = space
               /\ o \in listObjects[At(mZoneLists, zoneId)] }

\* The scene container drops the object.
LeaveContainer(s, object) ==
    IF s.fault # NoFault THEN s
    ELSE [s EXCEPT !.inContainer[object] = FALSE,
                   !.worldBox[object] = RestBox(object),
                   !.globalBounds[object] = FALSE]

\* The object leaves the scene: unregisterObject, then the container drops it.
UnregisterObject(object) ==
    /\ Running /\ Settled
    /\ inContainer[object]
    /\ Commit(LeaveContainer(unregisterObject(State, object), object))
    /\ lastOp' = "unregisterObject"
    /\ UNCHANGED numRegistrations
    /\ lostLastZone' = IF object \in Spaces THEN OnlyZoneIn(object) ELSE {}

\* The object moves or is reshaped: its box changes and the scene manager
\* calls notifyObjectChanged.
NotifyObjectChanged(object, box) ==
    /\ Running /\ Settled
    /\ inContainer[object]
    /\ Commit(notifyObjectChanged([State EXCEPT !.worldBox[object] = box], object))
    /\ lastOp' = "notifyObjectChanged"
    /\ UNCHANGED numRegistrations
    /\ lostLastZone' = {}

UpdateZoningState ==
    /\ Running /\ Settled
    /\ Commit(updateZoningState(State))
    /\ lastOp' = "updateZoningState"
    /\ UNCHANGED numRegistrations
    /\ lostLastZone' = {}

\* updateObject( object ): a pass of updateZoningState when a zone space is
\* dirty or the object is, and nothing at all otherwise.
UpdateObject(object) ==
    /\ Running /\ Settled
    /\ inContainer[object]
    /\ IF updateObject(State, object) = State
         THEN UNCHANGED vars
         ELSE /\ Commit(updateObject(State, object))
              /\ lastOp' = "updateZoningState"
              /\ UNCHANGED numRegistrations
              /\ lostLastZone' = {}

Next ==
    \/ RegisterRootZone
    \/ \E object \in Spaces : RegisterZones(object, getZoneRange[object])
    \/ \E object \in Objects, outdoorOnly \in BOOLEAN :
           \E box \in BoxesOf(object) :
               /\ (outdoorOnly => object \in PlainObjects)
               /\ RegisterObject(object, box, outdoorOnly)
    \/ \E object \in Objects : UnregisterObject(object)
    \/ \E object \in Objects :
           \E box \in BoxesOf(object) : NotifyObjectChanged(object, box)
    \/ UpdateZoningState
    \/ \E object \in Objects : UpdateObject(object)

Spec == Init /\ [][Next]_vars

\* A scene that holds zone spaces only, which come and go more often.
\* A zone space enters the scene.
RegisterSpace(object, box) ==
    RegisterObjectWithin(object, box, FALSE, MaxSpaceRegistrations)

NextSpaces ==
    \/ RegisterRootZone
    \/ \E object \in Spaces : RegisterZones(object, getZoneRange[object])
    \/ \E object \in Spaces :
           \E box \in BoxesOf(object) : RegisterSpace(object, box)
    \/ \E object \in Spaces : UnregisterObject(object)
    \/ UpdateZoningState

SpecSpaces == Init /\ [][NextSpaces]_vars

\* ------------------------------------------------------------ the claims

\* The zone IDs of an object's entry in the membership table.
EntryIds(o) == Range(getValues(State, mZoneListHandle[o]))
\* The zone IDs whose slot holds a list that contains the object.
ListedIn(o) ==
    { z \in 0..(Len(mZoneLists) - 1) :
        At(mZoneLists, z) # 0 /\ o \in listObjects[At(mZoneLists, z)] }
\* The IDs of an owner's range, and the IDs of all the active owners.
ZoneIdsOf(space) ==
    mZoneRangeStart[space]..(mZoneRangeStart[space] + mNumZones[space] - 1)
ActiveZoneIds == UNION { ZoneIdsOf(space) : space \in Range(mZoneSpaces) }
AllocatedZoneIds == 0..(mNumTotalAllocatedZones - 1)

\* C1: once updateZoningState has returned, every object counted in a zone
\* has in its entry exactly the IDs of the zones whose list contains it.
C1_MembershipSymmetry ==
    (lastOp = "updateZoningState" /\ fault = NoFault) =>
        \A o \in Objects : mNumCurrZones[o] > 0 => EntryIds(o) = ListedIn(o)

\* C2: the ID ranges of two distinct active owners never overlap.
C2_RangeDisjointness ==
    \A i, j \in 1..Len(mZoneSpaces) :
        i # j => ZoneIdsOf(mZoneSpaces[i]) \cap ZoneIdsOf(mZoneSpaces[j]) = {}
\* Three owners, one of them registered past the hole that an
\* unregistered owner left behind.
C2_Witness ==
    /\ lastOp = "registerZones" /\ ~compacted /\ fault = NoFault
    /\ Len(mZoneSpaces) = 3
    /\ mNumActiveZones < mNumTotalAllocatedZones

\* C3 as stated: the ranges of the active owners cover exactly the
\* allocated IDs, in every state.
C3_DenseIdSpace == ActiveZoneIds = AllocatedZoneIds
\* C3, amended: the ranges of the active owners lie within the allocated
\* IDs and hold as many IDs as there are zones in use; they cover the
\* allocated IDs whenever no zone is missing, as after a compaction.
C3_DenseWhenNoHoles ==
    /\ ActiveZoneIds \subseteq AllocatedZoneIds
    /\ Cardinality(ActiveZoneIds) = mNumActiveZones
    /\ (mNumActiveZones = mNumTotalAllocatedZones =>
            ActiveZoneIds = AllocatedZoneIds)
\* An owner has been unregistered from the middle of the ID space, and
\* owners remain on both sides of the hole.
C3_Witness ==
    /\ lastOp = "unregisterObject" /\ fault = NoFault
    /\ Len(mZoneSpaces) = 2
    /\ \E z \in AllocatedZoneIds \ ActiveZoneIds :
           \E lo, hi \in ActiveZoneIds : lo < z /\ z < hi

\* The ID that a zone of the state before a step has after it: an active
\* owner's zone keeps its place in the owner's range.
RenamedId(z) ==
    IF z \in ActiveZoneIds
      THEN LET space == CHOOSE sp \in Range(mZoneSpaces) : z \in ZoneIdsOf(sp)
           IN  mZoneRangeStart'[space] + (z - mZoneRangeStart[space])
      ELSE z
\* The zones of active owners that list the object and are in its entry.
ZonesOf(o) == (EntryIds(o) \cap ListedIn(o)) \cap ActiveZoneIds

\* C4: a step in which registerZones compacts the ID space leaves in the
\* entry of every object the new ID of each zone it was in, and leaves
\* alone the entry of an object none of whose zones moved.
C4_CompactionRewritesMemberships ==
    [][ (lastOp' = "registerZones" /\ compacted' /\ fault' = NoFault) =>
            \A o \in Objects :
                /\ \A z \in ZonesOf(o) : RenamedId(z) \in EntryIds(o)'
                /\ (\A z \in ZonesOf(o) : RenamedId(z) = z) =>
                       EntryIds(o)' = EntryIds(o) ]_vars

\* C5 as stated: between operations a plain object has no handle exactly
\* when its count is 0, and its count is at most the IDs of its entry.
C5_HandleIffCounted ==
    \A o \in PlainObjects :
        /\ mZoneListHandle[o] = 0 <=> mNumCurrZones[o] = 0
        /\ mNumCurrZones[o] <= Len(getValues(State, mZoneListHandle[o]))
\* C5, amended: a plain object without a handle has count 0, its count is
\* at most the IDs of its entry, and an object that keeps a handle with
\* count 0 is flagged dirty.
C5_NoHandleNoCount ==
    \A o \in PlainObjects :
        /\ mZoneListHandle[o] = 0 => mNumCurrZones[o] = 0
        /\ mNumCurrZones[o] <= Len(getValues(State, mZoneListHandle[o]))
        /\ (mNumCurrZones[o] = 0 /\ mZoneListHandle[o] # 0) => mZoneRefDirty[o]
\* unregisterZones has taken a plain object's last zone: the object keeps
\* its handle and its entry, with count 0.
C5_Witness ==
    /\ lastOp = "unregisterObject" /\ fault = NoFault
    /\ \E o \in PlainObjects :
           /\ inContainer[o]
           /\ mNumCurrZones[o] = 0
           /\ mZoneListHandle[o] # 0
           /\ Len(getValues(State, mZoneListHandle[o])) > 0

\* The assertions that close a pass of updateZoningState.
UpdateAssertions ==
    { "updateZoningState - Object still dirty!",
      "updateZoningState - Still have dirty objects!",
      "updateZoningState - Still have dirty zones!" }

\* C6: a step of updateZoningState fires none of its assertions, and when
\* it returns both dirty queues are empty, the dirty area is invalid and
\* every object that was on the object queue is clean.
C6_UpdatePostcondition ==
    [][ lastOp' = "updateZoningState" =>
            /\ fault' \notin UpdateAssertions
            /\ fault' = NoFault =>
                   /\ mDirtyObjects' = <<>>
                   /\ mDirtyZoneSpaces' = <<>>
                   /\ mDirtyArea' = Box3FInvalid
                   /\ \A o \in Range(mDirtyObjects) : ~mZoneRefDirty'[o] ]_vars
\* A pass has just drained both queues and the dirty area.
C6_Witness ==
    /\ lastOp = "updateZoningState" /\ fault = NoFault
    /\ mDirtyObjects = <<>> /\ mDirtyZoneSpaces = <<>>
    /\ mDirtyArea = Box3FInvalid
    /\ \E o \in PlainObjects : mNumCurrZones[o] = 2
    /\ \E sp \in Spaces : mNumCurrZones[sp] > 0

\* No zone space of the scene other than the object overlaps the object.
NoOwnerOverlaps(o) ==
    \A sp \in Spaces \ {o} :
        inContainer[sp] => ~BoxOverlap(worldBox[sp], worldBox[o])

\* C7: unregistering the owner of a plain object's only zone leaves the
\* object dirty with count 0, and the update that follows leaves it in the
\* outdoor zone alone (count 1, entry {0}, clean) when no other owner
\* overlaps it.
C7_ScenarioD ==
    [][ /\ (lastOp' = "unregisterObject" /\ fault' = NoFault) =>
               \A o \in lostLastZone' :
                   mZoneRefDirty'[o] /\ mNumCurrZones'[o] = 0
        /\ (lastOp' = "updateZoningState" /\ fault' = NoFault) =>
               \A o \in lostLastZone :
                   NoOwnerOverlaps(o)' =>
                       /\ mNumCurrZones'[o] = 1
                       /\ EntryIds(o)' = {RootZoneId}
                       /\ ~mZoneRefDirty'[o] ]_vars

\* The zone spaces that _zoneInsert asks about the object, the zones they
\* report in all, and whether each of them reports outside overlap.
QueriedOwners(o) ==
    Range(findObjectList(State, worldBox[o], TRUE)) \ {o}
RECURSIVE NumOwnerZones(_, _)
NumOwnerZones(o, owners) ==
    IF owners = {} THEN 0
    ELSE LET sp == CHOOSE x \in owners : TRUE
         IN  Len(getOverlappingZones(State, sp, worldBox[o]).zones)
                 + NumOwnerZones(o, owners \ {sp})
EveryOwnerReportsOutside(o) ==
    \A sp \in QueriedOwners(o) :
        getOverlappingZones(State, sp, worldBox[o]).overlapsOutside

\* C8 as stated: for an object of the scene that is not outdoor-only,
\* _zoneInsert commits the outdoor zone exactly when every owner it asked
\* reported outside overlap.
C8_OutdoorRule ==
    \A o \in Objects :
        (fault = NoFault /\ inContainer[o] /\ ~OutsideOnly(State, o)) =>
            LET plan == ZoneInsertPlan(State, o,
                                       findObjectList(State, worldBox[o], TRUE))
            IN  plan.fault = NoFault =>
                    (RootZoneId \in Range(plan.globalZones)
                         <=> EveryOwnerReportsOutside(o))
\* C8, amended: ... exactly when every owner it asked reported outside
\* overlap and the owners' zones left room below the per-object maximum.
C8_OutdoorRuleWithRoom ==
    \A o \in Objects :
        (fault = NoFault /\ inContainer[o] /\ ~OutsideOnly(State, o)) =>
            LET plan == ZoneInsertPlan(State, o,
                                       findObjectList(State, worldBox[o], TRUE))
            IN  plan.fault = NoFault =>
                    (RootZoneId \in Range(plan.globalZones)
                         <=> /\ EveryOwnerReportsOutside(o)
                             /\ NumOwnerZones(o, QueriedOwners(o)) < MaxObjectZones)
\* An update has zoned a plain object that reaches outside of two owners:
\* every owner reported outside overlap, and the entry holds owners' zones
\* and, if there was room, the outdoor zone.
C8_Witness ==
    /\ lastOp = "updateZoningState" /\ fault = NoFault
    /\ \E o \in PlainObjects :
           /\ inContainer[o] /\ ~OutsideOnly(State, o) /\ ~mZoneRefDirty[o]
           /\ Cardinality(QueriedOwners(o)) = 2
           /\ EveryOwnerReportsOutside(o)
           /\ getValues(State, mZoneListHandle[o]) =
                  ZoneInsertPlan(State, o,
                      findObjectList(State, worldBox[o], TRUE)).globalZones
           /\ (RootZoneId \in EntryIds(o)
                  <=> NumOwnerZones(o, QueriedOwners(o)) < MaxObjectZones)

\* The assertions of _compactZonesCheck.
CompactionFaults ==
    { "_compactZonesCheck - index out of range",
      "_compactZonesCheck - mismatch between active and allocated zones" }

\* C9: a step of registerZones compacts exactly when, on entry, the zones
\* in use are at most half of the zones allocated; a compaction fires no
\* assertion and leaves as many zones allocated as are in use.
C9_CompactionCheck ==
    [][ lastOp' = "registerZones" =>
            /\ fault' \notin CompactionFaults
            /\ fault' = NoFault =>
                   /\ compacted' <=>
                          mNumActiveZones <= mNumTotalAllocatedZones \div 2
                   /\ compacted' =>
                          mNumTotalAllocatedZones' = mNumActiveZones' ]_vars
\* A compaction has moved B down into the hole that A left, and A has got
\* the IDs after it.
C9_Witness ==
    /\ lastOp = "registerZones" /\ compacted /\ fault = NoFault
    /\ mZoneSpaces = <<Root, "B", "A">>
    /\ mZoneRangeStart["B"] = 1 /\ mZoneRangeStart["A"] = 2

\* C10: once registered, the root zone has the range [0,1) and owns zone 0.
C10_RootPinned ==
    RootRegistered =>
        /\ mZoneRangeStart[Root] = 0
        /\ mNumZones[Root] = 1
        /\ getZoneOwner(State, RootZoneId) = Root
\* A compaction has run with the root zone and nothing else in the list,
\* after two owners have come and gone.
C10_Witness ==
    /\ lastOp = "registerZones" /\ compacted /\ fault = NoFault
    /\ Len(mZoneSpaces) = 2 /\ numRegistrations = 3
    /\ mZoneRangeStart[Root] = 0

\* The objects that _zoneInsert accepts: in the scene and counted in no zone.
Unzoned(o) == fault = NoFault /\ inContainer[o] /\ mNumCurrZones[o] = 0
\* The state that _zoneInsert( object ) leaves, with its own query.
InsertResult(o) == _zoneInsert(State, o, FALSE, <<>>)
\* The zone IDs that the owners asked about the object report, in the
\* order of the query.
RECURSIVE ReportedIds(_, _)
ReportedIds(o, queryList) ==
    IF queryList = <<>> THEN <<>>
    ELSE (IF Head(queryList) = o THEN <<>>
          ELSE getOverlappingZones(State, Head(queryList), worldBox[o]).zones)
         \o ReportedIds(o, Tail(queryList))
\* The entry the object is to get: the reported IDs up to the per-object
\* maximum, then the outdoor zone when the object is kept outdoors or
\* every owner reported outside overlap and there is room.
ExpectedIds(o) ==
    IF OutsideOnly(State, o) THEN <<RootZoneId>>
    ELSE LET ids == ReportedIds(o, findObjectList(State, worldBox[o], TRUE))
         IN  IF Len(ids) >= MaxObjectZones THEN SubSeq(ids, 1, MaxObjectZones)
             ELSE IF EveryOwnerReportsOutside(o) THEN Append(ids, RootZoneId)
             ELSE ids

\* C11: _zoneInsert leaves an unzoned object with the reported IDs (and the
\* outdoor zone by its rule) as its entry, a count equal to the length of
\* the entry and between 1 and the per-object maximum, the object on the
\* list of each of these zones, whose owner is active, and the flag clear.
C11_ZoneInsertPostcondition ==
    \A o \in Objects :
        Unzoned(o) =>
            LET r == InsertResult(o)
                entry == getValues(r, r.mZoneListHandle[o])
            IN  /\ r.fault = NoFault
                /\ r.mZoneListHandle[o] # 0
                /\ entry = ExpectedIds(o)
                /\ r.mNumCurrZones[o] = Len(entry)
                /\ 1 <= r.mNumCurrZones[o]
                /\ r.mNumCurrZones[o] <= MaxObjectZones
                /\ \A z \in Range(entry) :
                       /\ getZoneOwner(r, z) \in Range(mZoneSpaces)
                       /\ o \in r.listObjects[At(r.mZoneLists, z)]
                /\ ~r.mZoneRefDirty[o]
\* A dirty plain object that has lost its zones lies across two owners:
\* _zoneInsert gives it as many zones as an object can have.
C11_Witness ==
    \E o \in PlainObjects :
        /\ Unzoned(o) /\ mZoneRefDirty[o] /\ mZoneListHandle[o] # 0
        /\ Cardinality(QueriedOwners(o)) = 2
        /\ InsertResult(o).mNumCurrZones[o] = MaxObjectZones

\* C12: a step of registerZones( owner, n ) that returns gives the owner
\* the range [T, T+n), T being the zones allocated after the compaction
\* check; both counters grow by n; the slots T..T+n-1 hold n lists that
\* refer back to the owner; the owner is appended to the list of owners;
\* and the owner is dirty and on the zone-space queue, unless it is the
\* root zone, which is on no queue.
C12_RegisterZonesContract ==
    [][ (lastOp' = "registerZones" /\ fault' = NoFault) =>
            LET owner == mZoneSpaces'[Len(mZoneSpaces')]
                n == IF owner = Root THEN 1 ELSE getZoneRange[owner]
                T == IF compacted' THEN mNumActiveZones
                     ELSE mNumTotalAllocatedZones
            IN  /\ mZoneSpaces' = Append(mZoneSpaces, owner)
                /\ owner \notin Range(mZoneSpaces)
                /\ mZoneRangeStart'[owner] = T
                /\ mNumZones'[owner] = n
                /\ mNumTotalAllocatedZones' = T + n
                /\ mNumActiveZones' = mNumActiveZones + n
                /\ Len(mZoneLists') = T + n
                /\ \A z \in T..(T + n - 1) :
                       /\ At(mZoneLists', z) # 0
                       /\ listManager'[At(mZoneLists', z)] = owner
                /\ Cardinality({ At(mZoneLists', z) : z \in T..(T + n - 1) }) = n
                /\ zoneObjectType'[owner]
                /\ IF owner = Root
                     THEN mDirtyZoneSpaces' = <<>> /\ mDirtyObjects' = <<>>
                     ELSE /\ mZoneRefDirty'[owner]
                          /\ owner \in Range(mDirtyZoneSpaces') ]_vars
\* A comes back after B has come: its two zones get the lists that it
\* gave to the pool, behind a hole or after a compaction.
C12_Witness ==
    /\ lastOp = "registerZones" /\ fault = NoFault
    /\ numRegistrations = 3
    /\ mZoneSpaces[Len(mZoneSpaces)] = "A"
    /\ "B" \in Range(mZoneSpaces)
    /\ "A" \in Range(mDirtyZoneSpaces)
    /\ mZoneListPool = <<>>

\* The owners that a step takes off the list of owners.
Unregistered == Range(mZoneSpaces) \ Range(mZoneSpaces')

\* C13: a step that unregisters an owner does not compact: the zones
\* allocated and the range of every other owner stay, the zones in use go
\* down by the owner's, the owner's range becomes invalid and its world box
\* joins the dirty area; and no step but a registerZones that compacts
\* changes the zones allocated or the range of an owner that stays.
C13_UnregisterNeverCompacts ==
    [][ /\ (lastOp' = "unregisterObject" /\ fault' = NoFault) =>
               \A owner \in Unregistered :
                   /\ ~compacted'
                   /\ mZoneSpaces' = VectorRemove(mZoneSpaces, owner)
                   /\ mNumActiveZones' = mNumActiveZones - mNumZones[owner]
                   /\ mZoneRangeStart'[owner] = InvalidZoneId
                   /\ mNumZones'[owner] = 0
                   /\ mDirtyArea' = BoxIntersect(mDirtyArea, worldBox[owner])
        /\ (fault' = NoFault /\ ~(lastOp' = "registerZones" /\ compacted')) =>
               /\ mNumTotalAllocatedZones' >= mNumTotalAllocatedZones
               /\ lastOp' # "registerZones" =>
                      mNumTotalAllocatedZones' = mNumTotalAllocatedZones
               /\ \A sp \in Range(mZoneSpaces) \cap Range(mZoneSpaces') :
                      /\ mZoneRangeStart'[sp] = mZoneRangeStart[sp]
                      /\ mNumZones'[sp] = mNumZones[sp] ]_vars
\* An owner has been unregistered and more than half of the allocated
\* zones are still in use: the hole is there to stay.
C13_Witness ==
    /\ lastOp = "unregisterObject" /\ fault = NoFault
    /\ mNumActiveZones < mNumTotalAllocatedZones
    /\ 2 * mNumActiveZones > mNumTotalAllocatedZones
    /\ mDirtyArea # Box3FInvalid
    /\ \E z \in AllocatedZoneIds : z \notin ActiveZoneIds

\* _zoneInsert( o ) immediately followed by _zoneRemove( o ).
InsertThenRemove(o) == _zoneRemove(InsertResult(o), o)

\* C14: for an object of occupancy 0, _zoneInsert followed at once by
\* _zoneRemove leaves the occupancy 0, the handle 0, the table slot free,
\* the object list of every zone as before the insert and the dirty flag
\* clear.
C14_InsertRemoveRoundTrip ==
    \A o \in DOMAIN mNumCurrZones : Unzoned(o) =>
        LET r == InsertThenRemove(o)
        IN  /\ r.fault = NoFault
            /\ r.mNumCurrZones[o] = 0
            /\ r.mZoneListHandle[o] = 0
            /\ InsertResult(o).mZoneListHandle[o] \notin r.usedHandles
            /\ r.mObjectZoneLists[InsertResult(o).mZoneListHandle[o]] = <<>>
            /\ r.listObjects = listObjects
            /\ r.mZoneLists = mZoneLists
            /\ ~r.mZoneRefDirty[o]

\* The fields that the redistribution of the IDs writes.
CompactionOutcome(s) ==
    [mZoneRangeStart |-> s.mZoneRangeStart,
     mNumZones |-> s.mNumZones,
     mZoneLists |-> s.mZoneLists,
     mNumTotalAllocatedZones |-> s.mNumTotalAllocatedZones,
     mNumActiveZones |-> s.mNumActiveZones,
     mObjectZoneLists |-> s.mObjectZoneLists,
     listObjects |-> s.listObjects,
     fault |-> s.fault]

\* C15: a second redistribution of the zone IDs right after a first one
\* leaves the range of every owner, the vector of zone lists, the zones
\* allocated and the entry of every object as the first one left them, and
\* so does a second _compactZonesCheck.
C15_CompactionIdempotent ==
    (fault = NoFault /\ RedistributeZoneIds(State).fault = NoFault) =>
        /\ CompactionOutcome(RedistributeZoneIds(RedistributeZoneIds(State)))
               = CompactionOutcome(RedistributeZoneIds(State))
        /\ CompactionOutcome(_compactZonesCheck(RedistributeZoneIds(State)))
               = CompactionOutcome(RedistributeZoneIds(State))
\* The redistribution is due, it moves the range of an owner whose zone
\* is in the entry of an object, and it relocates a zone list.
C15_Witness ==
    /\ fault = NoFault /\ CompactionDue(State)
    /\ RedistributeZoneIds(State).fault = NoFault
    /\ RedistributeZoneIds(State).mZoneLists # mZoneLists
    /\ \E space \in Range(mZoneSpaces), o \in PlainObjects :
           /\ RedistributeZoneIds(State).mZoneRangeStart[space]
                  # mZoneRangeStart[space]
           /\ mNumCurrZones[o] >= 1
           /\ mZoneRangeStart[space] \in EntryIds(o)

\* The points asked about: the cell a point lies in, with the cells that
\* the small box around the point touches (the cell and at most one
\* neighbour); cell 3 is off the boxes of all objects.
Points ==
    { [cell |-> c, queryBox |-> b] :
          c \in 1..3, b \in { <<1, 1>>, <<2, 2>>, <<3, 3>>, <<1, 2>>, <<2, 3>> } }
      \cap { pt \in [cell : 1..3, queryBox : (1..3) \X (1..3)] :
                 pt.queryBox[1] <= pt.cell /\ pt.cell <= pt.queryBox[2] }
\* The owners that the container reports for the point, in its order, and
\* the positions of those that hold the point in one of their zones.
PointOwners(p) == findObjectList(State, p.queryBox, TRUE)
Accepting(p) ==
    { i \in 1..Len(PointOwners(p)) :
          \E n \in 0..(mNumZones[PointOwners(p)[i]] - 1) :
              ZoneCovers(State, PointOwners(p)[i], n, p.cell) }

\* C16: with at least one zone in use findZone does not fail and hands back
\* an owner and a zone ID that is valid; with exactly one zone in use they
\* are the outdoor zone's; else they are the first reported owner that
\* holds the point, with the ID of its zone that does, and the outdoor
\* zone's when no owner holds it.
C16_FindZoneFallback ==
    (fault = NoFault /\ mNumActiveZones >= 1) =>
        \A p \in Points :
            LET r == findZone(State, p)
            IN  /\ r.fault = NoFault
                /\ r.owner # NULL
                /\ r.owner \in Range(mZoneSpaces)
                /\ r.zone # InvalidZoneId
                /\ isValidZoneId(State, r.zone)
                /\ getZoneOwner(State, r.zone) = r.owner
                /\ mNumActiveZones = 1 => r.owner = Root /\ r.zone = RootZoneId
                /\ (mNumActiveZones > 1 /\ Accepting(p) = {}) =>
                       r.owner = Root /\ r.zone = RootZoneId
                /\ (mNumActiveZones > 1 /\ Accepting(p) # {}) =>
                       \E i \in Accepting(p) :
                           /\ \A j \in Accepting(p) : i <= j
                           /\ r.owner = PointOwners(p)[i]
                           /\ r.zone \in ZoneIdsOf(r.owner)
                           /\ ZoneCovers(State, r.owner,
                                         r.zone - mZoneRangeStart[r.owner],
                                         p.cell)
\* One point is held by the second of the two owners reported for it and
\* not by the first, and another by none of the owners reported for it.
C16_Witness ==
    /\ fault = NoFault /\ mNumActiveZones > 1
    /\ \E p \in Points :
           /\ Len(PointOwners(p)) = 2 /\ Accepting(p) = {2}
           /\ findZone(State, p).owner = PointOwners(p)[2]
    /\ \E p \in Points :
           /\ PointOwners(p) # <<>> /\ Accepting(p) = {}
           /\ findZone(State, p).owner = Root

\* The areas asked about; cell 3 is off the boxes of all objects.
Areas == Boxes \cup { <<2, 3>>, <<3, 3>> }
\* The owners that the container reports for the area, in its order, and
\* the zone IDs they report, owner after owner.
AreaOwners(area) == findObjectList(State, area, TRUE)
RECURSIVE AreaReportedIds(_, _)
AreaReportedIds(queryList, area) ==
    IF queryList = <<>> THEN <<>>
    ELSE getOverlappingZones(State, Head(queryList), area).zones
             \o AreaReportedIds(Tail(queryList), area)

\* C17: findZones appends to the caller's vector the zone IDs that the
\* owners overlapping the area report, then the outdoor zone exactly when
\* an owner reported outside overlap or no ID was reported; the number it
\* returns is the number of IDs appended and is at least 1; the state of
\* the manager is as before.
C17_FindZones ==
    fault = NoFault =>
        \A area \in Areas, outZones \in {<<>>, <<RootZoneId>>} :
            LET r == findZones(State, area, outZones)
                ids == AreaReportedIds(AreaOwners(area), area)
                outdoor ==
                    \/ \E sp \in Range(AreaOwners(area)) :
                           getOverlappingZones(State, sp, area).overlapsOutside
                    \/ ids = <<>>
            IN  /\ r.s = State
                /\ r.outZones =
                       outZones \o ids \o (IF outdoor THEN <<RootZoneId>> ELSE <<>>)
                /\ r.numTotalZones = Len(r.outZones) - Len(outZones)
                /\ r.numTotalZones >= 1
\* For one area two owners report zones, more than an object may be in,
\* one of them with outside overlap and the other without; for another
\* area no owner reports a zone.
C17_Witness ==
    /\ fault = NoFault
    /\ \E area \in Areas :
           /\ Len(AreaOwners(area)) = 2
           /\ \E sp \in Range(AreaOwners(area)) :
                  getOverlappingZones(State, sp, area).overlapsOutside
           /\ \E sp \in Range(AreaOwners(area)) :
                  ~getOverlappingZones(State, sp, area).overlapsOutside
           /\ findZones(State, area, <<>>).numTotalZones > MaxObjectZones + 1
           /\ RootZoneId \in Range(findZones(State, area, <<>>).outZones)
    /\ \E area \in Areas :
           findZones(State, area, <<>>).outZones = <<RootZoneId>>

\* The state with the record of the failed assertion taken out.
WithoutFault(s) == [s EXCEPT !.fault = NoFault]

\* C18: registerZones for an owner that is on the list of owners fails its
\* assertion, unregisterZones fails one of its two exactly for an owner
\* that is not on the list, and the failure leaves the counters, the
\* ranges, the zone lists, the entries and the dirty sets as they were.
C18_MisuseIsFatalAndHarmless ==
    fault = NoFault =>
        /\ \A object \in Range(mZoneSpaces), numZones \in 1..2 :
               /\ registerZones(State, object, numZones).fault
                      = "registerZones - Object already registered"
               /\ WithoutFault(registerZones(State, object, numZones)) = State
        /\ \A object \in Owners \ Range(mZoneSpaces) :
               /\ unregisterZones(State, object).fault
                      = "unregisterZones - Object not registered as zone space"
               /\ WithoutFault(unregisterZones(State, object)) = State
        /\ \A object \in Spaces :
               unregisterZones(State, object).fault
                   \in { "unregisterZones - Object not registered as zone space",
                         "unregisterZones - Too many zones removed" } =>
                   /\ object \notin Range(mZoneSpaces)
                   /\ WithoutFault(unregisterZones(State, object)) = State
\* An owner is registered a second time while a compaction is due, and
\* another that is not registered is unregistered, with an object zoned and
\* the dirty area and a dirty queue not empty.
C18_Witness ==
    /\ fault = NoFault /\ CompactionDue(State)
    /\ mDirtyArea # Box3FInvalid
    /\ mDirtyZoneSpaces # <<>> \/ mDirtyObjects # <<>>
    /\ \E o \in PlainObjects : mNumCurrZones[o] >= 1
    /\ \E object \in Range(mZoneSpaces) \cap Spaces :
           registerZones(State, object, getZoneRange[object]).fault # NoFault
    /\ \E object \in Spaces \ Range(mZoneSpaces) :
           unregisterZones(State, object).fault # NoFault

\* An object as _clearZoneList leaves it when it takes its last zone: the
\* count is 0, the flag is set and the entry is still in the table.
LostLastZone(o) ==
    inContainer[o] /\ mNumCurrZones[o] = 0 /\ mZoneRefDirty[o]
        /\ mZoneListHandle[o] # 0

\* C19: an object whose count _clearZoneList has brought to 0, before an
\* update or in its zone-space phase, is in a zone again (count at least
\* 1) with its flag clear when the update has returned.
C19_NoLostRezone ==
    [][ (lastOp' = "updateZoningState" /\ fault' = NoFault) =>
            \A o \in Objects :
                (inContainer'[o] /\ (LostLastZone(o) \/ LostLastZone(o)')) =>
                    mNumCurrZones'[o] >= 1 /\ ~mZoneRefDirty'[o] ]_vars

\* _rezoneObject( o ) returns at one of its two early exits.
RezoneReturnsEarly(o) ==
    /\ fault = NoFault /\ inContainer[o] /\ mNumCurrZones[o] >= 1
    /\ \/ RezoneLeavesUntouched(State, o)
       \/ RezoneNothingChanged(State, o,
                               findObjectList(State, worldBox[o], TRUE))
\* What the last two statements of _rezoneObject would make of the object.
FullRezone(o) == _zoneInsert(_zoneRemove(State, o), o, FALSE, <<>>)

\* C20: when _rezoneObject returns early for an object counted in a zone,
\* the object's entry and count are what _zoneRemove followed by
\* _zoneInsert would have given it.
C20_ShortCircuitEquivalence ==
    \A o \in Objects : RezoneReturnsEarly(o) =>
        /\ FullRezone(o).fault = NoFault
        /\ FullRezone(o).mNumCurrZones[o] = mNumCurrZones[o]
        /\ getValues(FullRezone(o), FullRezone(o).mZoneListHandle[o])
               = getValues(State, mZoneListHandle[o])

\* C21: the entry of a zone space holds no zone ID of the space's own
\* range, and the assertion of _setObjectZoneList never fails.
C21_OwnerNotInOwnZones ==
    /\ fault # "_addToZoneList - Cannot add zone to itself"
    /\ fault = NoFault =>
           \A sp \in Spaces : EntryIds(sp) \cap ZoneIdsOf(sp) = {}

\* C22: a list in the pool is empty and refers back to no owner; the slot
\* of every zone ID of an active owner holds a list that refers back to
\* the owner; no two zone IDs of active owners hold the same list, and no
\* list is in the pool twice.
C22_ZoneListPoolHygiene ==
    fault = NoFault =>
        /\ \A i \in 1..Len(mZoneListPool) :
               /\ listObjects[mZoneListPool[i]] = {}
               /\ listManager[mZoneListPool[i]] = NULL
               /\ \A j \in 1..Len(mZoneListPool) :
                      mZoneListPool[i] = mZoneListPool[j] => i = j
        /\ \A space \in Range(mZoneSpaces) : \A z \in ZoneIdsOf(space) :
               /\ z < Len(mZoneLists)
               /\ At(mZoneLists, z) # 0
               /\ listManager[At(mZoneLists, z)] = space
        /\ \A z1, z2 \in ActiveZoneIds :
               At(mZoneLists, z1) = At(mZoneLists, z2) => z1 = z2
\* A registration that compacted and took its lists from the pool, in
\* which a list is left.
C22_Witness ==
    /\ fault = NoFault /\ lastOp = "registerZones" /\ compacted
    /\ mZoneListPool # <<>>
    /\ Len(mZoneSpaces) >= 2

\* C23: whenever _zoneRemove may walk the entry of an object of the scene,
\* each ID of the entry is in the range of an active owner, the owner that
\* is notified for it exists and has the object on the list of that zone;
\* and no walk ever asks for the owner of an ID that has none.
C23_NoStaleIdsReachZoneRemove ==
    /\ fault # "getZoneOwner - Invalid zone ID"
    /\ fault = NoFault =>
           \A o \in Objects : (inContainer[o] /\ mZoneListHandle[o] # 0) =>
               \A z \in EntryIds(o) :
                   /\ z \in ActiveZoneIds
                   /\ getZoneOwner(State, z) # NULL
                   /\ z \in ZoneIdsOf(getZoneOwner(State, z))
                   /\ o \in listObjects[At(mZoneLists, z)]
                   /\ _zoneRemove(State, o).fault = NoFault

\* C24: a plain object that is registered when updateZoningState is called
\* is in a zone (count at least 1) with its flag clear when the update has
\* returned, whatever registrations, unregistrations and notifications of
\* the object went before.
C24_RegistrationLeadsToZoning ==
    [][ (lastOp' = "updateZoningState" /\ fault' = NoFault) =>
            \A o \in PlainObjects :
                (inContainer[o] /\ inContainer'[o]) =>
                    mNumCurrZones'[o] >= 1 /\ ~mZoneRefDirty'[o] ]_vars

\* The entry of the object in state s.
EntryIn(s, o) == Range(getValues(s, s.mZoneListHandle[o]))

\* C25: when updateObject( o ) has returned, the flag of o is clear and,
\* where o is counted in a zone, its entry holds no ID that is outside the
\* ranges of the active owners, the ID of an owner unregistered since the
\* last update included.
C25_UpdateObjectUpToDate ==
    fault = NoFault =>
        \A o \in Objects :
            (inContainer[o] /\ updateObject(State, o).fault = NoFault) =>
                /\ ~updateObject(State, o).mZoneRefDirty[o]
                /\ updateObject(State, o).mNumCurrZones[o] >= 1 =>
                       EntryIn(updateObject(State, o), o) \subseteq ActiveZoneIds

====
